---------------------------- MODULE Spec2Model ----------------------------
(***************************************************************************)
(* A model of solution_exporter.py: the interactive driver (main and       *)
(* export_another_solution), the authentication flow, the solution listing *)
(* parser, export_solution and the Spinner thread it runs beside the       *)
(* export invocation.                                                      *)
(*                                                                         *)
(* Text is modelled as sequences of one-character strings, so that         *)
(* lower(), strip(), split(), startswith() and the substring test are      *)
(* computed as Python computes them.                                       *)
(***************************************************************************)
EXTENDS Integers, Sequences, FiniteSets, TLC

(***************************************************************************)
(* Bounds of the model.                                                    *)
(***************************************************************************)
\* longest selection typed at the "Enter the number" prompt (SelSpec)
MaxSelLen == 2
\* most exports one run makes through the "export another" path
MaxExports == 2
\* longest environment URL typed at the prompt (AuthSpec)
MaxUrlLen == 5
\* most lines of a profile listing (AuthSpec)
MaxAuthLines == 3
\* most whitespace tokens of a solution listing line (ListSpec)
MaxTokens == 4

(***************************************************************************)
(* Program constants.                                                      *)
(***************************************************************************)
\* len(self.frames)
NumFrames == 10
\* friendly names longer than this are truncated
FriendlyMax == 24
\* characters kept before the "..."
FriendlyKeep == 21

(***************************************************************************)
(* Python str operations on sequences of characters.                       *)
(***************************************************************************)
NL == "\n"

Whitespace == {" ", "\t", NL}

UpperToLower ==
  ("A" :> "a") @@ ("B" :> "b") @@ ("C" :> "c") @@ ("D" :> "d") @@ ("E" :> "e") @@
  ("F" :> "f") @@ ("G" :> "g") @@ ("H" :> "h") @@ ("I" :> "i") @@ ("J" :> "j") @@
  ("K" :> "k") @@ ("L" :> "l") @@ ("M" :> "m") @@ ("N" :> "n") @@ ("O" :> "o") @@
  ("P" :> "p") @@ ("Q" :> "q") @@ ("R" :> "r") @@ ("S" :> "s") @@ ("T" :> "t") @@
  ("U" :> "u") @@ ("V" :> "v") @@ ("W" :> "w") @@ ("X" :> "x") @@ ("Y" :> "y") @@
  ("Z" :> "z")

\* str.lower()
Lower(s) ==
  [i \in 1..Len(s) |-> IF s[i] \in DOMAIN UpperToLower THEN UpperToLower[s[i]] ELSE s[i]]

\* sub in s
Contains(s, sub) ==
  \E i \in 1..(Len(s) - Len(sub) + 1) : SubSeq(s, i, i + Len(sub) - 1) = sub

\* s.startswith(p)
StartsWith(s, p) == Len(s) >= Len(p) /\ SubSeq(s, 1, Len(p)) = p

RECURSIVE LStrip(_)
LStrip(s) == IF s # <<>> /\ Head(s) \in Whitespace THEN LStrip(Tail(s)) ELSE s

RECURSIVE RStrip(_)
RStrip(s) ==
  IF s # <<>> /\ s[Len(s)] \in Whitespace THEN RStrip(SubSeq(s, 1, Len(s) - 1)) ELSE s

\* str.strip()
Strip(s) == RStrip(LStrip(s))

\* s.split(sep) for a one-character separator: empty pieces are kept
RECURSIVE SplitOn(_, _)
SplitOn(s, sep) ==
  IF \E i \in 1..Len(s) : s[i] = sep
  THEN LET i == CHOOSE k \in 1..Len(s) : s[k] = sep /\ \A j \in 1..(k - 1) : s[j] # sep
       IN  <<SubSeq(s, 1, i - 1)>> \o SplitOn(SubSeq(s, i + 1, Len(s)), sep)
  ELSE <<s>>

\* s.split(): pieces between runs of whitespace, none of them empty
RECURSIVE SplitWS(_)
SplitWS(s) ==
  LET t == LStrip(s)
  IN  IF t = <<>> THEN <<>>
      ELSE LET n == IF \E i \in 1..Len(t) : t[i] \in Whitespace
                    THEN (CHOOSE k \in 1..Len(t) :
                            t[k] \in Whitespace /\ \A j \in 1..(k - 1) : t[j] \notin Whitespace) - 1
                    ELSE Len(t)
           IN  <<SubSeq(t, 1, n)>> \o SplitWS(SubSeq(t, n + 1, Len(t)))

\* sep.join(parts)
RECURSIVE Join(_, _)
Join(parts, sep) ==
  IF parts = <<>> THEN <<>>
  ELSE IF Len(parts) = 1 THEN parts[1]
  ELSE parts[1] \o sep \o Join(Tail(parts), sep)

\* all sequences over S of length at most n
SeqsUpTo(S, n) == UNION {[1..k -> S] : k \in 0..n}

(***************************************************************************)
(* String literals of the program.                                         *)
(***************************************************************************)
S_http == <<"h", "t", "t", "p">>
S_crm == <<"c", "r", "m">>
S_active == <<"a", "c", "t", "i", "v", "e">>
S_universal == <<"u", "n", "i", "v", "e", "r", "s", "a", "l">>
S_Index == <<"I", "n", "d", "e", "x">>
S_dashes == <<"-", "-", "-">>
S_UniqueName == <<"U", "n", "i", "q", "u", "e", " ", "N", "a", "m", "e">>
S_True == <<"T", "r", "u", "e">>
S_False == <<"F", "a", "l", "s", "e">>
S_https == <<"h", "t", "t", "p", "s", ":", "/", "/">>
S_y == <<"y">>
S_yes == <<"y", "e", "s">>
S_q == <<"q">>
S_dash == <<"-">>
S_ellipsis == <<".", ".", ".">>

(***************************************************************************)
(* int(selection): an optional sign, then decimal digits, single           *)
(* underscores allowed between digits; anything else raises ValueError.    *)
(***************************************************************************)
Digits == {"0", "1", "2", "3", "4", "5", "6", "7", "8", "9"}

DigitVal ==
  ("0" :> 0) @@ ("1" :> 1) @@ ("2" :> 2) @@ ("3" :> 3) @@ ("4" :> 4) @@
  ("5" :> 5) @@ ("6" :> 6) @@ ("7" :> 7) @@ ("8" :> 8) @@ ("9" :> 9)

\* the digits-and-underscores part of an integer literal is well formed
DigitsOk(d) ==
  /\ d # <<>>
  /\ \A i \in 1..Len(d) : d[i] \in Digits \cup {"_"}
  /\ d[1] # "_"
  /\ d[Len(d)] # "_"
  /\ \A i \in 1..(Len(d) - 1) : ~(d[i] = "_" /\ d[i + 1] = "_")

RECURSIVE DigitsValue(_, _)
DigitsValue(d, acc) ==
  IF d = <<>> THEN acc
  ELSE IF Head(d) = "_" THEN DigitsValue(Tail(d), acc)
  ELSE DigitsValue(Tail(d), 10 * acc + DigitVal[Head(d)])

\* int(s): [ok |-> FALSE] stands for ValueError
ParseInt(s) ==
  LET t    == Strip(s)
      sgn  == IF t # <<>> /\ Head(t) \in {"+", "-"} THEN Head(t) ELSE ""
      body == IF sgn = "" THEN t ELSE Tail(t)
  IN  IF DigitsOk(body)
      THEN [ok |-> TRUE,
            val |-> IF sgn = "-" THEN 0 - DigitsValue(body, 0) ELSE DigitsValue(body, 0)]
      ELSE [ok |-> FALSE, val |-> 0]

(***************************************************************************)
(* ensure_authenticated: the active-profile heuristic and the URL          *)
(* normalisation.                                                          *)
(***************************************************************************)
\* line 139: a header, separator or blank line is skipped
IsSkippedAuthLine(line) ==
  Contains(line, S_dashes) \/ Contains(line, S_Index) \/ Strip(line) = <<>>

\* line 141
IsProfileLine(line) ==
  Contains(Lower(line), S_http) /\ Contains(Lower(line), S_crm)

\* lines 137-143: the loop over the lines, left at the first profile line
RECURSIVE ScanAuthLines(_)
ScanAuthLines(lines) ==
  IF lines = <<>> THEN FALSE
  ELSE IF IsSkippedAuthLine(Head(lines)) THEN ScanAuthLines(Tail(lines))
  ELSE IF IsProfileLine(Head(lines)) THEN TRUE
  ELSE ScanAuthLines(Tail(lines))

\* variant: the test of line 134 left out
OutputLooksActiveNoGuard(stdout) == TRUE

\* line 134

OutputLooksActive(stdout) ==
  LET output == Lower(stdout)
  IN  Contains(output, S_active)
      \/ (Contains(output, S_http) /\ ~Contains(Lower(output), S_universal))

\* lines 130-143: has_active
HasActive(rc, stdout) ==
  IF rc = 0 /\ stdout # <<>>
  THEN IF OutputLooksActive(stdout)
       THEN ScanAuthLines(SplitOn(Strip(stdout), NL))
       ELSE FALSE
  ELSE FALSE

\* variant: the scheme is prepended without the test of line 165
NormalizeUrlAlways(env_url) == S_https \o env_url

\* lines 164-166

NormalizeUrl(env_url) ==
  IF ~StartsWith(env_url, S_http) THEN S_https \o env_url ELSE env_url

(***************************************************************************)
(* list_solutions: parsing the listing and re-parsing each raw line for    *)
(* the table.                                                              *)
(***************************************************************************)
\* lines 198-211
RECURSIVE ParseSolutionLines(_)
ParseSolutionLines(lines) ==
  IF lines = <<>> THEN <<>>
  ELSE LET line  == Head(lines)
           parts == SplitWS(line)
           rest  == ParseSolutionLines(Tail(lines))
       IN  IF Contains(line, S_dashes) \/ Contains(line, S_UniqueName) \/ Strip(line) = <<>>
           THEN rest
           ELSE IF parts # <<>> /\ ~StartsWith(parts[1], S_dash)
                THEN <<[unique_name |-> parts[1], raw_line |-> line]>> \o rest
                ELSE rest

\* lines 188-215: the records list_solutions returns
ParseSolutions(rc, stdout) ==
  IF rc # 0 THEN <<>>
  ELSE IF stdout = <<>> THEN <<>>
  ELSE ParseSolutionLines(SplitOn(Strip(stdout), NL))

\* lines 233-234: the last token is the managed flag
IsManagedLiteral(tok) == tok \in {S_True, S_False}

\* variant: the last token is taken as the version whatever it is
VersionOfLastToken(parts) ==
  IF Len(parts) >= 3 THEN parts[Len(parts)] ELSE <<>>

\* lines 232-240: version

VersionOf(parts) ==
  IF Len(parts) >= 3
  THEN IF IsManagedLiteral(parts[Len(parts)]) THEN parts[Len(parts) - 1] ELSE parts[Len(parts)]
  ELSE <<>>

\* lines 234: managed
ManagedOf(parts) ==
  IF Len(parts) >= 3
  THEN IF IsManagedLiteral(parts[Len(parts)]) THEN parts[Len(parts)] ELSE <<>>
  ELSE <<>>

\* lines 236-244: friendly name, truncated
FriendlyOf(parts) ==
  LET n    == Len(parts)
      full == IF n >= 3
              THEN IF ManagedOf(parts) # <<>>
                   THEN Join(SubSeq(parts, 2, n - 2), <<" ">>)
                   ELSE Join(SubSeq(parts, 2, n - 1), <<" ">>)
              ELSE <<>>
  IN  IF Len(full) > FriendlyMax THEN SubSeq(full, 1, FriendlyKeep) \o S_ellipsis ELSE full

\* lines 224-246: one row of the table
DisplayRow(idx, sol) ==
  LET parts == SplitWS(sol.raw_line)
  IN  [idx           |-> idx,
       unique_name   |-> IF Len(parts) > 0 THEN parts[1] ELSE <<>>,
       friendly_name |-> FriendlyOf(parts),
       version       |-> VersionOf(parts),
       managed       |-> ManagedOf(parts)]

DisplayTable(sols) == [i \in 1..Len(sols) |-> DisplayRow(i, sols[i])]

(***************************************************************************)
(* Sample inputs: what the external tool prints and what the user types.   *)
(***************************************************************************)
S_Banner == <<"M", "i", "c", "r", "o", "s", "o", "f", "t", " ", "P", "o", "w", "e", "r",
              "P", "l", "a", "t", "f", "o", "r", "m", " ", "C", "L", "I">>
S_Version == <<"V", "e", "r", "s", "i", "o", "n", ":">>
S_Exporting == <<"E", "x", "p", "o", "r", "t", "i", "n", "g", " ">>
SP == <<" ">>

\* outputs of "pac help"
HelpOutputs == {S_Banner \o <<NL>> \o S_Version \o <<" ", "1">>, S_Banner, <<"?">>}

\* pieces of a profile listing line
F_UrlCrm == <<"H", "t", "t", "p", "s", ":", "/", "/", "o", ".", "C", "R", "M">>
F_Url == <<"h", "t", "t", "p", ":", "/", "/", "o">>
F_Univ == <<"U", "n", "i", "v", "e", "r", "s", "a", "l">>
F_Act == <<"A", "c", "t", "i", "v", "e">>
F_Idx == <<"I", "n", "d", "e", "x">>
F_Sep == <<"-", "-", "-">>
F_Crm == <<"c", "r", "m">>

AuthFragments == {F_UrlCrm, F_Url, F_Crm, F_Univ, F_Act, F_Idx, F_Sep}

\* a line of a profile listing: blank, one piece, or two pieces of which one
\* is the URL of an environment
AuthLines ==
  {<<>>, SP} \cup AuthFragments
  \cup {a \o SP \o F_UrlCrm : a \in AuthFragments \ {F_UrlCrm}}
  \cup {F_Url \o SP \o F_Crm, F_UrlCrm \o SP \o F_Sep}

\* results of "pac auth list" with up to MaxAuthLines lines of output
AuthResults ==
  {[rc |-> r, stdout |-> Join(ls, <<NL>>)] : r \in {0, 1}, ls \in SeqsUpTo(AuthLines, MaxAuthLines)}

\* the few results of "pac auth list" the whole-driver specifications use
AuthSamples ==
  {[rc |-> 1, stdout |-> <<>>],
   [rc |-> 0, stdout |-> F_Idx \o SP \o F_Act \o <<NL>> \o F_Act \o SP \o F_UrlCrm],
   [rc |-> 0, stdout |-> F_Idx \o <<NL>> \o F_Univ \o SP \o F_UrlCrm]}

\* answers to "Use existing profile? (Y/n)"
ReuseAnswers == {<<>>, <<"Y">>, <<"y", "e", "s">>, <<" ", "y">>, <<"n">>, <<"y", "e">>}

UrlBare == <<"o", "r", "g", ".", "c", "r", "m", ".", "d", "y", "n", "a", "m", "i", "c", "s",
             ".", "c", "o", "m">>

\* the few URLs the whole-driver specifications use
UrlSamples == {<<>>, SP, UrlBare, S_https \o <<"o">>}

UrlAlphabet == {"h", "t", "p", "x"}

\* what is typed at the URL prompt, up to MaxUrlLen characters, with and without
\* padding
UrlInputs ==
  {UrlBare, SP \o UrlBare \o SP} \cup SeqsUpTo(UrlAlphabet, MaxUrlLen)
  \cup {SP \o u : u \in SeqsUpTo(UrlAlphabet, 1)}

\* listing lines
L_Header == S_UniqueName \o <<" ", "V", "e", "r", "s", "i", "o", "n">>
L_A == <<"A", " ", "A", "l", "f", "a", " ", "1", ".", "0", " ">> \o S_False
L_B == <<"B", " ", "B", " ", "t", "w", "o", " ", "2", ".", "0", " ">> \o S_True
L_C == <<"C", " ", "3", ".", "0">>
L_Dash == <<"-", "x", " ", "y", " ", "z">>

\* the few results of "pac solution list" the whole-driver specifications use
ListSamples ==
  {[rc |-> 1, stdout |-> L_A],
   [rc |-> 0, stdout |-> L_Header \o <<NL>> \o F_Sep \o <<NL>>],
   [rc |-> 0, stdout |-> Join(<<L_Header, F_Sep, L_A, L_B, L_C, <<>>>>, <<NL>>)]}

\* tokens of a listing line
T_Sol == <<"S", "o", "l">>
T_Ver == <<"1", ".", "0">>
T_true == <<"t", "r", "u", "e">>

ListTokens == {T_Sol, T_Ver, S_True, S_False, T_true}

\* results of "pac solution list" with one record line of up to MaxTokens tokens
ListResults ==
  {[rc |-> 0, stdout |-> Join(<<L_Header, F_Sep, Join(toks, SP), L_Dash>>, <<NL>>)] :
     toks \in SeqsUpTo(ListTokens, MaxTokens)}
  \cup {[rc |-> 0, stdout |-> Join(<<L_A, T_Sol \o <<" ", " ">> \o T_Ver \o <<"\t">> \o S_True>>, <<NL>>)]}

\* the few selections the whole-driver specifications use
SelSamples ==
  {<<"1">>, <<"2">>, <<" ", "3", " ">>, <<"0">>, <<"-", "1">>, <<"4">>, <<>>, <<"a", "b">>,
   <<"q">>, <<"Q">>}

SelAlphabet == {"0", "1", "2", "-", "a"}

\* what is typed at the selection prompt, up to MaxSelLen characters
SelInputs ==
  SeqsUpTo(SelAlphabet, MaxSelLen)
  \cup {<<"q">>, <<"Q">>, <<"+", "1">>, <<"1", "_", "0">>, <<"_", "1">>, <<"0", "3">>, <<" ", "2", " ">>,
        <<"4">>, <<"3">>}

\* answers to "Export another solution? (y/N)"
AnotherAnswers == {<<>>, <<"y">>, <<"Y", "E", "S">>, <<"n">>}

(***************************************************************************)
(* State.                                                                  *)
(***************************************************************************)
VARIABLES
  pc,            \* position of the foreground thread
  exitCode,      \* -1 while the program runs, then the exit status
  inAnother,     \* the foreground is inside export_another_solution
  \* ensure_authenticated
  authOut,       \* result of "pac auth list"
  has_active,
  reusePrompted, \* "Use existing profile?" was asked
  use_existing,  \* the answer, stripped and lowered
  url_input,     \* the URL as typed, stripped
  env_url,       \* the URL after line 166
  signInUrl,     \* --url of "pac auth create"
  signInCalls,   \* invocations of "pac auth create"
  signInRc,      \* its exit status: "none", "0", "1"
  authResult,    \* "pending", "ok", "failed"
  \* list_solutions
  solutions,
  table,         \* the rows printed
  listCalls,     \* invocations of "pac solution list"
  \* selection
  selection,
  solution_name,
  \* Spinner
  spinning,
  tpc,           \* position of the spinner thread: "none", "test", "paint", "done"
  frame,         \* position of frame_cycle
  message,
  status,        \* final status line of the current spinner: "none", "completed", "failed"
  started,       \* calls of Spinner.start
  stopped,       \* calls of Spinner.stop completed
  \* export_solution
  exportCalls,   \* invocations of "pac solution export"
  exportedName,  \* --name of the last one
  result,        \* "None", or the exit status "0", "1"
  exiting,       \* SystemExit(1) is propagating
  fileExists,    \* full_path.exists()
  success,       \* the value passed to Spinner.stop
  ret,           \* the value export_solution returned: "none", "True", "False"
  msg            \* the diagnostic export_solution printed after the spinner stopped

ctlVars == <<pc, exitCode, inAnother>>
authVars == <<authOut, has_active, reusePrompted, use_existing, url_input, env_url,
              signInUrl, signInCalls, signInRc, authResult>>
catVars == <<solutions, table, listCalls>>
selVars == <<selection, solution_name>>
spinVars == <<spinning, tpc, frame, message, status, started, stopped>>
expVars == <<exportCalls, exportedName, result, exiting, fileExists, success, ret, msg>>
vars == <<ctlVars, authVars, catVars, selVars, spinVars, expVars>>

NoOut == [rc |-> 0, stdout |-> <<>>]

AuthInit ==
  /\ authOut = NoOut
  /\ has_active = FALSE
  /\ reusePrompted = FALSE
  /\ use_existing = <<>>
  /\ url_input = <<>>
  /\ env_url = <<>>
  /\ signInUrl = <<>>
  /\ signInCalls = 0
  /\ signInRc = "none"
  /\ authResult = "pending"

Init ==
  /\ pc = "check_pac"
  /\ exitCode = -1
  /\ inAnother = FALSE
  /\ AuthInit
  /\ solutions = <<>>
  /\ table = <<>>
  /\ listCalls = 0
  /\ selection = <<>>
  /\ solution_name = <<>>
  /\ spinning = FALSE
  /\ tpc = "none"
  /\ frame = 0
  /\ message = <<>>
  /\ status = "none"
  /\ started = 0
  /\ stopped = 0
  /\ exportCalls = 0
  /\ exportedName = <<>>
  /\ result = "None"
  /\ exiting = FALSE
  /\ fileExists = FALSE
  /\ success = FALSE
  /\ ret = "none"
  /\ msg = "none"

\* sys.exit(code), or main returning (code 0)
Exit(code) == pc' = "done" /\ exitCode' = code

(***************************************************************************)
(* main, step 1: check_pac_installed.                                      *)
(***************************************************************************)
\* line 94
PacFound(output) == Contains(output, S_Banner) \/ Contains(output, S_Version)

CheckPacInstalled ==
  /\ pc = "check_pac"
  /\ \/ Exit(1)                                   \* run_pac_command: pac is not found
     \/ \E out \in HelpOutputs :
          IF PacFound(out) THEN pc' = "auth_list" /\ exitCode' = exitCode ELSE Exit(1)
  /\ UNCHANGED <<inAnother, authVars, catVars, selVars, spinVars, expVars>>

(***************************************************************************)
(* main, step 2: ensure_authenticated.                                     *)
(***************************************************************************)
AuthList(results) ==
  /\ pc = "auth_list"
  /\ \/ /\ Exit(1)                                \* run_pac_command: pac is not found
        /\ UNCHANGED <<authOut, has_active>>
     \/ \E r \in results :
          /\ authOut' = r
          /\ has_active' = HasActive(r.rc, r.stdout)
          /\ pc' = "auth_checked"
          /\ exitCode' = exitCode
  /\ UNCHANGED <<inAnother, reusePrompted, use_existing, url_input, env_url, signInUrl,
                 signInCalls, signInRc, authResult, catVars, selVars, spinVars, expVars>>

\* lines 145-150: with a profile the listing is printed and reuse is asked;
\* the listing is not read again
AuthBranch ==
  /\ pc = "auth_checked"
  /\ reusePrompted' = has_active
  /\ pc' = IF has_active THEN "auth_reuse" ELSE "auth_url"
  /\ authOut' = NoOut
  /\ UNCHANGED <<exitCode, inAnother, has_active, use_existing, url_input, env_url, signInUrl,
                 signInCalls, signInRc, authResult, catVars, selVars, spinVars, expVars>>

\* line 151
AcceptsReuse(answer) == answer \in {<<>>, S_y, S_yes}

AuthReuse ==
  /\ pc = "auth_reuse"
  /\ \E a \in ReuseAnswers :
       /\ use_existing' = Lower(Strip(a))
       /\ IF AcceptsReuse(use_existing')
          THEN authResult' = "ok" /\ pc' = "list"
          ELSE authResult' = authResult /\ pc' = "auth_url"
  /\ UNCHANGED <<exitCode, inAnother, authOut, has_active, reusePrompted, url_input, env_url,
                 signInUrl, signInCalls, signInRc, catVars, selVars, spinVars, expVars>>

AuthUrl(urls) ==
  /\ pc = "auth_url"
  /\ \E u \in urls :
       /\ url_input' = Strip(u)
       /\ IF url_input' = <<>>
          THEN /\ env_url' = <<>>
               /\ authResult' = "failed"            \* return False; main: sys.exit(1)
               /\ Exit(1)
          ELSE /\ env_url' = NormalizeUrl(url_input')
               /\ authResult' = authResult
               /\ pc' = "auth_create"
               /\ exitCode' = exitCode
  /\ UNCHANGED <<inAnother, authOut, has_active, reusePrompted, use_existing, signInUrl,
                 signInCalls, signInRc, catVars, selVars, spinVars, expVars>>

\* variant: the exit status of the sign-in is not looked at
SignInOkAlways(rc) == TRUE

\* line 174

SignInOk(rc) == rc = "0"

AuthCreate ==
  /\ pc = "auth_create"
  /\ signInCalls' = signInCalls + 1
  /\ signInUrl' = env_url
  /\ \/ /\ Exit(1)                                \* run_pac_command: pac is not found
        /\ UNCHANGED <<signInRc, authResult>>
     \/ \E rc \in {"0", "1"} :
          /\ signInRc' = rc
          /\ IF SignInOk(rc)
             THEN authResult' = "ok" /\ pc' = "list" /\ exitCode' = exitCode
             ELSE authResult' = "failed" /\ Exit(1)  \* return False; main: sys.exit(1)
  /\ UNCHANGED <<inAnother, authOut, has_active, reusePrompted, use_existing, url_input,
                 env_url, catVars, selVars, spinVars, expVars>>

(***************************************************************************)
(* main, step 3, and export_another_solution: list_solutions.  The locals  *)
(* of ensure_authenticated are gone by now.                                *)
(***************************************************************************)
ListSolutions(results) ==
  /\ pc = "list"
  /\ listCalls' = listCalls + 1
  /\ authOut' = NoOut
  /\ has_active' = FALSE
  /\ reusePrompted' = FALSE
  /\ use_existing' = <<>>
  /\ url_input' = <<>>
  /\ env_url' = <<>>
  /\ signInUrl' = <<>>
  /\ \/ /\ Exit(1)                                \* run_pac_command: pac is not found
        /\ UNCHANGED <<solutions, table>>
     \/ \E r \in results :
          /\ solutions' = ParseSolutions(r.rc, r.stdout)
          /\ table' = DisplayTable(solutions')
          /\ IF solutions' = <<>>
             THEN Exit(IF inAnother THEN 0 ELSE 1)  \* another: return; main: sys.exit(1)
             ELSE pc' = "select" /\ exitCode' = exitCode
  /\ UNCHANGED <<inAnother, signInCalls, signInRc, authResult, selVars, spinVars, expVars>>

(***************************************************************************)
(* main, step 4, and export_another_solution: the selection.               *)
(***************************************************************************)
\* variant: an integer out of range falls back to the literal name
ResolveWithFallback(sel, sols) ==
  IF Lower(sel) = S_q THEN [kind |-> "quit", name |-> <<>>]
  ELSE LET p == ParseInt(sel)
       IN  IF p.ok /\ p.val >= 1 /\ p.val <= Len(sols)
           THEN [kind |-> "name", name |-> sols[p.val].unique_name]
           ELSE IF sel = <<>> THEN [kind |-> "fail", name |-> <<>>]
           ELSE [kind |-> "name", name |-> sel]

\* lines 343-360 and 390-406: what a stripped selection resolves to
Resolve(sel, sols) ==
  IF Lower(sel) = S_q THEN [kind |-> "quit", name |-> <<>>]
  ELSE LET p == ParseInt(sel)
       IN  IF p.ok
           THEN IF p.val < 1 \/ p.val > Len(sols)
                THEN [kind |-> "fail", name |-> <<>>]
                ELSE [kind |-> "name", name |-> sols[p.val].unique_name]
           ELSE IF sel = <<>> THEN [kind |-> "fail", name |-> <<>>]
           ELSE [kind |-> "name", name |-> sel]

Select(inputs) ==
  /\ pc = "select"
  /\ \E raw \in inputs :
       /\ selection' = Strip(raw)
       /\ LET r == Resolve(selection', solutions)
          IN  CASE r.kind = "quit" ->
                     Exit(0) /\ solution_name' = solution_name
                [] r.kind = "fail" ->               \* another: return; main: sys.exit(1)
                     Exit(IF inAnother THEN 0 ELSE 1) /\ solution_name' = solution_name
                [] r.kind = "name" ->
                     pc' = "export_start" /\ exitCode' = exitCode /\ solution_name' = r.name
  /\ UNCHANGED <<inAnother, authVars, catVars, spinVars, expVars>>

(***************************************************************************)
(* export_solution and Spinner.start / Spinner.stop.                       *)
(***************************************************************************)
\* lines 258-273: the path is new, the spinner is created and started
ExportBegin ==
  /\ pc = "export_start"
  /\ spinning' = TRUE
  /\ tpc' = "test"
  /\ frame' = 0
  /\ message' = S_Exporting \o solution_name
  /\ status' = "none"
  /\ started' = started + 1
  /\ result' = "None"
  /\ exiting' = FALSE
  /\ fileExists' = FALSE
  /\ success' = FALSE
  /\ ret' = "none"
  /\ msg' = "none"
  /\ pc' = "export_run"
  /\ UNCHANGED <<exitCode, inAnother, authVars, catVars, selVars, stopped, exportCalls,
                 exportedName>>

\* lines 277-284: the export invocation; the tool may or may not leave a file
ExportRun ==
  /\ pc = "export_run"
  /\ exportCalls' = exportCalls + 1
  /\ exportedName' = solution_name
  /\ \/ /\ result' = "None"                       \* run_pac_command: sys.exit(1)
        /\ exiting' = TRUE
        /\ fileExists' = fileExists
     \/ \E rc \in {"0", "1"}, f \in BOOLEAN :
          /\ result' = rc
          /\ exiting' = FALSE
          /\ fileExists' = f
  /\ pc' = "export_finally"
  /\ UNCHANGED <<exitCode, inAnother, authVars, catVars, selVars, spinVars, success, ret, msg>>

\* variant: the file is not looked for
StopSuccessIgnoresFile(res, exists) == res # "None" /\ res = "0"

\* line 287

StopSuccess(res, exists) == res # "None" /\ res = "0" /\ exists

ExportFinally ==
  /\ pc = "export_finally"
  /\ success' = StopSuccess(result, fileExists)
  /\ pc' = "stop_flag"
  /\ UNCHANGED <<exitCode, inAnother, authVars, catVars, selVars, spinVars, exportCalls,
                 exportedName, result, exiting, fileExists, ret, msg>>

\* line 50
StopClearFlag ==
  /\ pc = "stop_flag"
  /\ spinning' = FALSE
  /\ pc' = "stop_join"
  /\ UNCHANGED <<exitCode, inAnother, authVars, catVars, selVars, tpc, frame, message, status,
                 started, stopped, expVars>>

\* variant: stop does not wait for the thread
JoinReturnsAtOnce(t) == TRUE

\* lines 51-52: join returns once the thread has ended

JoinReturns(t) == t = "done"

StopJoin ==
  /\ pc = "stop_join"
  /\ JoinReturns(tpc)
  /\ pc' = "stop_print"
  /\ UNCHANGED <<exitCode, inAnother, authVars, catVars, selVars, spinVars, expVars>>

\* lines 54-63; then, with SystemExit propagating, the program ends
StopPrint ==
  /\ pc = "stop_print"
  /\ status' = IF success THEN "completed" ELSE "failed"
  /\ stopped' = stopped + 1
  /\ IF exiting THEN Exit(1) ELSE pc' = "export_result" /\ exitCode' = exitCode
  /\ UNCHANGED <<inAnother, authVars, catVars, selVars, spinning, tpc, frame, message, started,
                 expVars>>

\* variant: exit status zero alone is success
ExportOutcomeIgnoresFile(res, exists) ==
  IF res = "None" THEN [ret |-> "False", msg |-> "failed_to_run"]
  ELSE IF res = "0" THEN [ret |-> "True", msg |-> "size"]
  ELSE [ret |-> "False", msg |-> "failed_to_export"]

\* lines 290-313
ExportOutcome(res, exists) ==
  IF res = "None" THEN [ret |-> "False", msg |-> "failed_to_run"]
  ELSE IF res = "0"
       THEN IF exists THEN [ret |-> "True", msg |-> "size"]
            ELSE [ret |-> "False", msg |-> "file_not_found"]
  ELSE [ret |-> "False", msg |-> "failed_to_export"]

ExportResult ==
  /\ pc = "export_result"
  /\ ret' = ExportOutcome(result, fileExists).ret
  /\ msg' = ExportOutcome(result, fileExists).msg
  /\ pc' = "after_export"
  /\ UNCHANGED <<exitCode, inAnother, authVars, catVars, selVars, spinVars, exportCalls,
                 exportedName, result, exiting, fileExists, success>>

\* another process creates or removes the file at the target path after line 287
\* has looked for it; line 296 is where the program next looks
OtherProcess ==
  /\ pc = "export_result"
  /\ fileExists' = ~fileExists
  /\ UNCHANGED <<ctlVars, authVars, catVars, selVars, spinVars, exportCalls, exportedName,
                 result, exiting, success, ret, msg>>

(***************************************************************************)
(* Spinner._spin, the spinner thread.                                      *)
(***************************************************************************)
\* line 32: the loop test; frame_cycle ends with the thread
SpinTest ==
  /\ tpc = "test"
  /\ IF spinning THEN tpc' = "paint" /\ frame' = frame ELSE tpc' = "done" /\ frame' = 0
  /\ UNCHANGED <<ctlVars, authVars, catVars, selVars, spinning, message, status, started,
                 stopped, expVars>>

\* lines 33-39: one repaint, then the sleep
SpinPaint ==
  /\ tpc = "paint"
  /\ frame' = (frame + 1) % NumFrames
  /\ tpc' = "test"
  /\ UNCHANGED <<ctlVars, authVars, catVars, selVars, spinning, message, status, started,
                 stopped, expVars>>

(***************************************************************************)
(* main, step 5, and export_another_solution after the export.             *)
(***************************************************************************)
\* lines 365-375 and 411-418
AfterExport ==
  /\ pc = "after_export"
  /\ IF ret = "True"
     THEN pc' = "another_prompt" /\ exitCode' = exitCode
     ELSE Exit(IF inAnother THEN 0 ELSE 1)        \* another: falls off the end; main: sys.exit(1)
  /\ UNCHANGED <<inAnother, authVars, catVars, selVars, spinVars, expVars>>

\* lines 371-373 and 416-418; the model stops asking for more after MaxExports
\* export_another_solution runs in a frame of its own: the selection and name
\* of the caller are not read again, and the Spinner and the locals of the
\* export_solution call that has returned no longer exist
AnotherPrompt ==
  /\ pc = "another_prompt"
  /\ \E a \in AnotherAnswers :
       IF Lower(Strip(a)) \in {S_y, S_yes}
       THEN /\ started < MaxExports
            /\ inAnother' = TRUE
            /\ pc' = "list"
            /\ exitCode' = exitCode
            /\ selection' = <<>>
            /\ solution_name' = <<>>
            /\ tpc' = "none"
            /\ frame' = 0
            /\ message' = <<>>
            /\ status' = "none"
            /\ exportedName' = <<>>
            /\ result' = "None"
            /\ fileExists' = FALSE
            /\ success' = FALSE
            /\ ret' = "none"
            /\ msg' = "none"
            /\ UNCHANGED <<spinning, started, stopped, exportCalls, exiting>>
       ELSE /\ inAnother' = inAnother
            /\ Exit(0)
            /\ UNCHANGED <<selVars, spinVars, expVars>>
  /\ UNCHANGED <<authVars, catVars>>

(***************************************************************************)
(* Specifications.                                                         *)
(***************************************************************************)
Foreground(sels, auths, urls, lists) ==
  \/ CheckPacInstalled
  \/ AuthList(auths)
  \/ AuthBranch
  \/ AuthReuse
  \/ AuthUrl(urls)
  \/ AuthCreate
  \/ ListSolutions(lists)
  \/ Select(sels)
  \/ ExportBegin
  \/ ExportRun
  \/ ExportFinally
  \/ StopClearFlag
  \/ StopJoin
  \/ StopPrint
  \/ ExportResult
  \/ AfterExport
  \/ AnotherPrompt

SpinnerThread == SpinTest \/ SpinPaint

\* the whole driver on the sample inputs
Next == Foreground(SelSamples, AuthSamples, UrlSamples, ListSamples) \/ SpinnerThread \/ OtherProcess

Spec == Init /\ [][Next]_vars

\* the same, with the spinner thread scheduled fairly; the foreground may wait
\* at a prompt for ever
FairSpec == Spec /\ WF_vars(SpinnerThread)

\* the whole driver, every selection of up to MaxSelLen characters typed
SelNext ==
  \/ Foreground(SelInputs, AuthSamples, UrlSamples, ListSamples)
  \/ SpinnerThread
  \/ OtherProcess

SelSpec == Init /\ [][SelNext]_vars

\* up to the end of ensure_authenticated, every profile listing and URL of the bounds
AuthNext ==
  \/ CheckPacInstalled
  \/ AuthList(AuthResults)
  \/ AuthBranch
  \/ AuthReuse
  \/ AuthUrl(UrlInputs)
  \/ AuthCreate

AuthSpec == Init /\ [][AuthNext]_vars

\* up to the end of list_solutions, every listing line of the bounds
ListNext ==
  \/ CheckPacInstalled
  \/ AuthList(AuthSamples)
  \/ AuthBranch
  \/ AuthReuse
  \/ AuthUrl(UrlSamples)
  \/ AuthCreate
  \/ ListSolutions(ListResults)

ListSpec == Init /\ [][ListNext]_vars
(***************************************************************************)
(* Properties.                                                             *)
(***************************************************************************)
\* C1: export_solution returns True if and only if the export invocation
\* returned exit status zero and the file is observed to exist at the target
\* path; with status zero and no file it returns False and prints the "file
\* was not found" warning; with a non-zero status it returns False whether or
\* not the file exists.
C1_ReturnIffZeroAndFile ==
  [][(pc = "export_result" /\ pc' = "after_export") =>
       /\ (ret' = "True") <=> (result = "0" /\ fileExists)
       /\ (result = "0" /\ ~fileExists) => (ret' = "False" /\ msg' = "file_not_found")
       /\ (result = "1") => (ret' = "False" /\ msg' = "failed_to_export")]_vars

C1_Witness ==
  pc = "after_export" /\ result = "0" /\ ~fileExists /\ ret = "False" /\ msg = "file_not_found"

\* C2: whenever an export fails the program terminates with exit code 1, for
\* the first export and for every export made through "export another".
C2_ExportFailureExitsOne == (pc = "done" /\ ret = "False") => exitCode = 1

\* C3: selection resolution, in main and in export_another_solution alike: an
\* integer within [1, count] selects the unique name of that record; an integer
\* outside the range fails with no export and no use as a literal name; a
\* non-empty non-integer is the name itself; an empty input fails with no
\* export.
C3_SelectionResolution ==
  /\ [][(pc = "select" /\ pc' # "select" /\ Lower(selection') # S_q) =>
          LET s == selection'
              p == ParseInt(s)
              n == Len(solutions)
          IN  /\ (p.ok /\ 1 <= p.val /\ p.val <= n) =>
                   (pc' = "export_start" /\ solution_name' = solutions[p.val].unique_name)
              /\ (p.ok /\ (p.val < 1 \/ p.val > n)) =>
                   (pc' = "done" /\ solution_name' = solution_name)
              /\ (~p.ok /\ s # <<>>) => (pc' = "export_start" /\ solution_name' = s)
              /\ (s = <<>>) => pc' = "done"]_vars
  /\ [][exportCalls' # exportCalls =>
          LET p == ParseInt(selection)
          IN  IF p.ok
              THEN /\ 1 <= p.val
                   /\ p.val <= Len(solutions)
                   /\ exportedName' = solutions[p.val].unique_name
              ELSE selection # <<>> /\ exportedName' = selection]_vars
  /\ [][pc = "done" => exportCalls' = exportCalls]_vars

C3_Witness ==
  /\ inAnother
  /\ pc = "export_finally"
  /\ selection = <<"2">>
  /\ Len(solutions) = 3
  /\ exportedName = <<"B">>

\* C4: every spinner export_solution starts is stopped exactly once before
\* control leaves export_solution, also when the executable is not found and
\* the program is ending with status 1; the success value passed to stop is
\* (the invocation returned normally) and (exit status zero) and (the file
\* exists at the computed path).
InSpinner == pc \in {"export_run", "export_finally", "stop_flag", "stop_join", "stop_print"}

C4_SpinnerStoppedOnce ==
  /\ [](started = stopped + (IF InSpinner THEN 1 ELSE 0))
  /\ [](exiting /\ pc = "done" => exitCode = 1)
  /\ [][stopped' # stopped =>
          /\ stopped' = stopped + 1
          /\ (status' = "completed") <=> success]_vars
  /\ [][(pc = "export_finally" /\ pc' # pc) =>
          (success' <=> (~exiting /\ result = "0" /\ fileExists))]_vars

C4_Witness ==
  /\ pc = "done"
  /\ exiting
  /\ result = "None"
  /\ started = 1
  /\ stopped = 1
  /\ status = "failed"
  /\ exitCode = 1

QualifyingLine(line) ==
  /\ \E i \in 1..Len(line) : line[i] \notin Whitespace
  /\ ~Contains(line, S_dashes)
  /\ ~Contains(line, S_Index)
  /\ Contains(Lower(line), S_http)
  /\ Contains(Lower(line), S_crm)

HasQualifyingLine(stdout) ==
  LET lines == SplitOn(stdout, NL)
  IN  \E i \in 1..Len(lines) : QualifyingLine(lines[i])

\* C6, as stated: a profile is detected exactly when the listing exits with
\* status zero and some line qualifies; nothing else in the output matters.
C6_DetectedIffQualifyingLine ==
  pc = "auth_checked" =>
    (has_active <=> (authOut.rc = 0 /\ HasQualifyingLine(authOut.stdout)))

\* C6, amended: a profile is detected, and reuse is asked, exactly when the
\* listing exits with status zero, some line qualifies, and the output as a
\* whole contains 'active' or does not contain 'universal' (in any case).
C6_Detected(out) ==
  /\ out.rc = 0
  /\ HasQualifyingLine(out.stdout)
  /\ (Contains(Lower(out.stdout), S_active) \/ ~Contains(Lower(out.stdout), S_universal))

C6_DetectedUnlessUniversal ==
  /\ [](pc = "auth_checked" => (has_active <=> C6_Detected(authOut)))
  /\ [][(pc = "auth_checked" /\ pc' # pc) =>
          /\ reusePrompted' <=> C6_Detected(authOut)
          /\ (pc' = "auth_reuse") <=> C6_Detected(authOut)]_vars

C6_Witness ==
  /\ pc = "auth_checked"
  /\ has_active
  /\ Contains(Lower(authOut.stdout), S_universal)
  /\ Contains(Lower(authOut.stdout), S_active)

\* C7: the authentication flow succeeds only by a confirmed reuse of a detected
\* profile (no sign-in invoked) or by a sign-in that returned status zero; the
\* sign-in is invoked at most once; an empty URL fails the flow without a
\* sign-in; a non-zero sign-in status fails the flow; a failed flow ends the
\* program with exit code 1 before any listing or export.
C7_AuthFlow ==
  /\ [](signInCalls <= 1)
  /\ [][(authResult' = "ok" /\ authResult # "ok") =>
          \/ /\ pc = "auth_reuse"
             /\ has_active
             /\ use_existing' \in {<<>>, S_y, S_yes}
             /\ signInCalls' = 0
          \/ /\ pc = "auth_create"
             /\ signInCalls' = 1
             /\ signInRc' = "0"]_vars
  /\ [](authResult = "ok" /\ signInRc = "none" => signInCalls = 0)
  /\ [][(pc = "auth_url" /\ pc' # pc /\ url_input' = <<>>) =>
          (authResult' = "failed" /\ signInCalls' = 0)]_vars
  /\ [](signInRc = "1" => authResult = "failed")
  /\ [](authResult = "failed" =>
          /\ pc = "done"
          /\ exitCode = 1
          /\ listCalls = 0
          /\ exportCalls = 0
          /\ \/ url_input = <<>> /\ signInCalls = 0
             \/ signInRc = "1" /\ signInCalls = 1)

C7_Witness ==
  /\ authResult = "failed"
  /\ signInRc = "1"
  /\ signInCalls = 1
  /\ pc = "done"
  /\ exitCode = 1

\* C8: the URL passed to the sign-in is the stripped input unchanged when it
\* starts with "http", and "https://" followed by the input otherwise;
\* normalising it again changes nothing.
C8_UrlNormalised ==
  /\ [][signInCalls' = signInCalls + 1 =>
          /\ url_input # <<>>
          /\ signInUrl' = IF Len(url_input) >= 4 /\ SubSeq(url_input, 1, 4) = S_http
                          THEN url_input
                          ELSE S_https \o url_input
          /\ NormalizeUrl(signInUrl') = signInUrl']_vars
  /\ [](signInCalls = 1 /\ url_input = UrlBare =>
          signInUrl = <<"h", "t", "t", "p", "s", ":", "/", "/">> \o UrlBare)

C8_Witness ==
  signInCalls = 1 /\ url_input = UrlBare /\ signInUrl = S_https \o UrlBare

\* the whitespace tokens of the i-th record's line
RecordTokens(i) == SplitWS(solutions[i].raw_line)

\* C9, as stated: for a listing line of any number of tokens, the version is
\* the second-to-last token when the last token is 'True' or 'False', and
\* otherwise the last token, with no managed flag.
C9_VersionAnyLength ==
  \A i \in 1..Len(solutions) :
    LET toks == RecordTokens(i)
        n    == Len(toks)
    IN  IF toks[n] \in {S_True, S_False}
        THEN n >= 2 /\ table[i].version = toks[n - 1]
        ELSE table[i].version = toks[n] /\ table[i].managed = <<>>

\* C9, amended: that holds for the lines of at least three tokens; for a line
\* of one or two tokens the version is empty and no managed flag is reported.
C9_VersionThreeTokens ==
  /\ Len(table) = Len(solutions)
  /\ \A i \in 1..Len(solutions) :
       LET toks == RecordTokens(i)
           n    == Len(toks)
       IN  IF n >= 3
           THEN IF toks[n] \in {S_True, S_False}
                THEN table[i].version = toks[n - 1]
                ELSE table[i].version = toks[n] /\ table[i].managed = <<>>
           ELSE table[i].version = <<>> /\ table[i].managed = <<>>

C9_Witness ==
  /\ Len(solutions) = 1
  /\ RecordTokens(1) = <<T_Sol, T_Sol, T_Ver, S_False>>
  /\ table[1].version = T_Ver

\* C10: when export_solution returns, the spinner's final status line says
\* "completed" if and only if export_solution returns True.
C10_StatusAgreesWithResult ==
  pc = "after_export" => ((status = "completed") <=> (ret = "True"))
=============================================================================
